---- MODULE Spec2Model ----
(***************************************************************************)
(* Model of the validate_deck tool of the MTG Commander MCP server         *)
(* (handleValidateDeck).  Strings are sequences of one-character strings,  *)
(* so that trimming, splitting, lower-casing, JSON decoding and number     *)
(* scanning are computed character by character as the Go code and the Go  *)
(* standard library compute them.                                           *)
(***************************************************************************)
EXTENDS Integers, Sequences, FiniteSets, TLC

VARIABLES
    pc,            \* position of the handler: "start", "parsed", "resolving",
                   \* "resolved", "done"
    hasCommander,  \* the request carries a string argument "commander"
    hasDecklist,   \* the request carries a string argument "decklist"
    decklistStr,   \* decklistStr: the raw decklist
    shape,         \* how the raw decklist was written (history of the input)
    jsonErr,       \* err of json.Unmarshal was non-nil (text mode ran)
    cardNames,     \* cardNames []string
    commander,     \* the card returned by GetCardByName
    cardCounts,    \* cardCounts map[string]int
    duplicates,    \* duplicates []string
    output,        \* output strings.Builder, one record per WriteString
    result,        \* "none", "text" (NewToolResultText), "error" (NewToolResultError)
    resultText,    \* the content of the returned result
    resolverCalls, \* number of GetCardByName calls made by the handler
    resolveErr,    \* the error GetCardByName returned, "" for none
    cancelledAt,   \* position at which ctx was cancelled, "none" while it is live
    callState,     \* two concurrent calls: the locals of each
    builders,      \* two concurrent calls: the strings.Builder values
    at,            \* a call of one function: "idle", "called", "returned", "again"
    arg,           \* a call of one function: its arguments
    ret,           \* a call of one function: what it returned
    again,         \* what the function returned when applied to ret
    loggerHolder,  \* logger.go: the writer of loggerHolder.logger
    globalLevel,   \* logger.go: zerolog's global level
    lastCall,      \* logger.go: the last call made, and the state it found
    messages,      \* chat: model.messages
    textarea,      \* chat: the value of model.textarea
    cmds,          \* chat: the commands sendToLLM returned, with their progress
    inbox,         \* chat: the messages the commands delivered, not yet handled
    quitting,      \* chat: Update returned tea.Quit
    lastUpdate     \* chat: the last message Update handled, and what it found

request == <<hasCommander, hasDecklist, decklistStr, shape>>

concurrent == <<callState, builders>>

pure == <<at, arg, ret, again>>

logging == <<loggerHolder, globalLevel, lastCall>>

chat == <<messages, textarea, cmds, inbox, quitting, lastUpdate>>

\* the state outside the validate_deck handler
elsewhere == <<pure, logging, chat>>

vars == <<pc, hasCommander, hasDecklist, decklistStr, shape, jsonErr, cardNames,
          commander, cardCounts, duplicates, output, result, resultText,
          resolverCalls, resolveErr, cancelledAt, callState, builders,
          at, arg, ret, again, loggerHolder, globalLevel, lastCall,
          messages, textarea, cmds, inbox, quitting, lastUpdate>>

----------------------------------------------------------------------------
(* Bounds of the input space *)

\* most entries of a decklist written from a list of names
MaxEntries == 4
\* most elements of a JSON array of mixed elements
MaxElems == 2
\* most lines of a free-text decklist
MaxLines == 3
\* most characters of an arbitrary raw string
MaxLen == 3

----------------------------------------------------------------------------
(* Characters and strings *)

Digits == {"0", "1", "2", "3", "4", "5", "6", "7", "8", "9"}

\* unicode.IsSpace on the characters of the model (strings.TrimSpace)
IsSpace(c) == c \in {" ", "\t", "\n", "\r", "\f"}

\* unicode.ToLower on one character
LowerChar(c) ==
    CASE c = "A" -> "a" [] c = "B" -> "b" [] c = "C" -> "c" [] c = "D" -> "d"
      [] c = "E" -> "e" [] c = "F" -> "f" [] c = "G" -> "g" [] c = "H" -> "h"
      [] c = "I" -> "i" [] c = "J" -> "j" [] c = "K" -> "k" [] c = "L" -> "l"
      [] c = "M" -> "m" [] c = "N" -> "n" [] c = "O" -> "o" [] c = "P" -> "p"
      [] c = "Q" -> "q" [] c = "R" -> "r" [] c = "S" -> "s" [] c = "T" -> "t"
      [] c = "U" -> "u" [] c = "V" -> "v" [] c = "W" -> "w" [] c = "X" -> "x"
      [] c = "Y" -> "y" [] c = "Z" -> "z" [] OTHER -> c

\* strings.ToLower
ToLower(s) == [i \in 1..Len(s) |-> LowerChar(s[i])]

\* strings.TrimSpace: cut the leading and the trailing white space
RECURSIVE TrimLeft(_)
TrimLeft(s) == IF s # <<>> /\ IsSpace(Head(s)) THEN TrimLeft(Tail(s)) ELSE s

RECURSIVE TrimRight(_)
TrimRight(s) ==
    IF s # <<>> /\ IsSpace(s[Len(s)]) THEN TrimRight(SubSeq(s, 1, Len(s) - 1)) ELSE s

TrimSpace(s) == TrimRight(TrimLeft(s))

\* strings.Contains(s, substr)
Contains(s, substr) ==
    \E i \in 1..(Len(s) - Len(substr) + 1) : SubSeq(s, i, i + Len(substr) - 1) = substr

\* index of the first c in s at or after i, Len(s) + 1 when there is none
RECURSIVE IndexFrom(_, _, _)
IndexFrom(s, c, i) ==
    IF i > Len(s) \/ s[i] = c THEN i ELSE IndexFrom(s, c, i + 1)

\* the parts of s[lo..hi] between the occurrences of sep, found by halves: the
\* last part of the left half and the first part of the right half are one part
RECURSIVE SplitRange(_, _, _, _)
SplitRange(s, sep, lo, hi) ==
    IF lo > hi THEN << <<>> >>
    ELSE IF lo = hi THEN (IF s[lo] = sep THEN << <<>>, <<>> >> ELSE << <<s[lo]>> >>)
    ELSE LET mid   == (lo + hi) \div 2
             left  == SplitRange(s, sep, lo, mid)
             right == SplitRange(s, sep, mid + 1, hi)
         IN SubSeq(left, 1, Len(left) - 1)
            \o << left[Len(left)] \o right[1] >>
            \o SubSeq(right, 2, Len(right))

\* strings.Split(s, sep) for a one-character sep: always at least one part
Split(s, sep) == SplitRange(s, sep, 1, Len(s))

\* strings.SplitN(s, sep, 2): cut at the first sep only
SplitN2(s, sep) ==
    LET k == IndexFrom(s, sep, 1)
    IN IF k > Len(s) THEN <<s>>
       ELSE <<SubSeq(s, 1, k - 1), SubSeq(s, k + 1, Len(s))>>

\* strings.Join(parts, sep)
RECURSIVE JoinRange(_, _, _, _)
JoinRange(parts, sep, lo, hi) ==
    IF lo > hi THEN <<>>
    ELSE IF lo = hi THEN parts[lo]
    ELSE LET mid == (lo + hi) \div 2
         IN JoinRange(parts, sep, lo, mid) \o sep \o JoinRange(parts, sep, mid + 1, hi)

Join(parts, sep) == JoinRange(parts, sep, 1, Len(parts))

\* the decimal digits of n >= 0, as %d prints them
DigitChar(d) ==
    CASE d = 0 -> "0" [] d = 1 -> "1" [] d = 2 -> "2" [] d = 3 -> "3" [] d = 4 -> "4"
      [] d = 5 -> "5" [] d = 6 -> "6" [] d = 7 -> "7" [] d = 8 -> "8" [] OTHER -> "9"

RECURSIVE Itoa(_)
Itoa(n) == IF n < 10 THEN <<DigitChar(n)>> ELSE Itoa(n \div 10) \o <<DigitChar(n % 10)>>

----------------------------------------------------------------------------
(* fmt.Sscanf(token, "%d", new(int)) *)

\* length of the longest prefix of s made of characters of set
RECURSIVE RunLen(_, _)
RunLen(s, set) == IF s # <<>> /\ Head(s) \in set THEN 1 + RunLen(Tail(s), set) ELSE 0

\* err == nil of fmt.Sscanf(tok, "%d", new(int)): an optional sign, then the
\* longest run of digits and underscores, which strconv.ParseInt(_, 10, 64) must
\* accept (no underscore in base 10; a run of up to 18 digits is in range).
\* Characters after the run are left unread and are no error.
SscanfIntOk(tok) ==
    LET body == IF tok # <<>> /\ Head(tok) \in {"+", "-"} THEN Tail(tok) ELSE tok
        n    == RunLen(body, Digits \cup {"_"})
    IN /\ n > 0
       /\ n <= 18
       /\ \A i \in 1..n : body[i] # "_"

----------------------------------------------------------------------------
(* encoding/json: json.Unmarshal([]byte(decklistStr), &cardNames)          *)
(* Strings of the model hold no backslash, so no escape is decoded.        *)

\* white space between JSON tokens
IsJSONSpace(c) == c \in {" ", "\t", "\n", "\r"}

RECURSIVE SkipWs(_, _)
SkipWs(s, i) == IF i <= Len(s) /\ IsJSONSpace(s[i]) THEN SkipWs(s, i + 1) ELSE i

ScanFail == [ok |-> FALSE, next |-> 0, kind |-> "", str |-> <<>>, elems |-> <<>>]

Scanned(k, n, str, elems) ==
    [ok |-> TRUE, next |-> n, kind |-> k, str |-> str, elems |-> elems]

\* a string literal opening at s[i] = "\"": no control character inside
ScanString(s, i) ==
    LET j == IndexFrom(s, "\"", i + 1)
    IN IF j > Len(s) \/ \E k \in (i + 1)..(j - 1) : s[k] \in {"\n", "\t", "\r", "\f"}
       THEN ScanFail
       ELSE Scanned("string", j + 1, SubSeq(s, i + 1, j - 1), <<>>)

\* the index after the digits starting at s[i], 0 when s[i] is no digit
DigitsEnd(s, i) ==
    LET n == RunLen(SubSeq(s, i, Len(s)), Digits) IN IF n = 0 THEN 0 ELSE i + n

\* a number: -? (0 | [1-9][0-9]*) (. [0-9]+)? ([eE] [+-]? [0-9]+)?
ScanNumber(s, i) ==
    LET i1 == IF i <= Len(s) /\ s[i] = "-" THEN i + 1 ELSE i
        i2 == IF i1 > Len(s) THEN 0
              ELSE IF s[i1] = "0" THEN i1 + 1
              ELSE DigitsEnd(s, i1)
        i3 == IF i2 = 0 THEN 0
              ELSE IF i2 <= Len(s) /\ s[i2] = "." THEN DigitsEnd(s, i2 + 1)
              ELSE i2
        i4 == IF i3 = 0 THEN 0
              ELSE IF i3 <= Len(s) /\ s[i3] \in {"e", "E"}
                   THEN IF i3 + 1 <= Len(s) /\ s[i3 + 1] \in {"+", "-"}
                        THEN DigitsEnd(s, i3 + 2)
                        ELSE DigitsEnd(s, i3 + 1)
              ELSE i3
    IN IF i4 = 0 THEN ScanFail ELSE Scanned("number", i4, SubSeq(s, i, i4 - 1), <<>>)

\* one of the literals true, false, null
ScanLiteral(s, i, word, kind) ==
    IF i + Len(word) - 1 <= Len(s) /\ SubSeq(s, i, i + Len(word) - 1) = word
    THEN Scanned(kind, i + Len(word), word, <<>>)
    ELSE ScanFail

RECURSIVE ScanValue(_, _)
RECURSIVE ScanElems(_, _, _)
RECURSIVE ScanMembers(_, _)

\* the value starting at s[i] (white space already skipped)
ScanValue(s, i) ==
    IF i > Len(s) THEN ScanFail
    ELSE IF s[i] = "\"" THEN ScanString(s, i)
    ELSE IF s[i] = "[" THEN
        LET j == SkipWs(s, i + 1)
        IN IF j <= Len(s) /\ s[j] = "]" THEN Scanned("array", j + 1, <<>>, <<>>)
           ELSE ScanElems(s, j, <<>>)
    ELSE IF s[i] = "{" THEN
        LET j == SkipWs(s, i + 1)
        IN IF j <= Len(s) /\ s[j] = "}" THEN Scanned("object", j + 1, <<>>, <<>>)
           ELSE ScanMembers(s, j)
    ELSE IF s[i] = "-" \/ s[i] \in Digits THEN ScanNumber(s, i)
    ELSE IF s[i] = "t" THEN ScanLiteral(s, i, <<"t", "r", "u", "e">>, "bool")
    ELSE IF s[i] = "f" THEN ScanLiteral(s, i, <<"f", "a", "l", "s", "e">>, "bool")
    ELSE IF s[i] = "n" THEN ScanLiteral(s, i, <<"n", "u", "l", "l">>, "null")
    ELSE ScanFail

\* the elements of an array from s[i] on, after the elements acc
ScanElems(s, i, acc) ==
    LET v    == ScanValue(s, i)
        j    == SkipWs(s, v.next)
        acc2 == Append(acc, [kind |-> v.kind, str |-> v.str])
    IN IF ~v.ok \/ j > Len(s) THEN ScanFail
       ELSE IF s[j] = "," THEN ScanElems(s, SkipWs(s, j + 1), acc2)
       ELSE IF s[j] = "]" THEN Scanned("array", j + 1, <<>>, acc2)
       ELSE ScanFail

\* the members of an object from s[i] on: "key" : value (, "key" : value)* }
ScanMembers(s, i) ==
    LET k == IF i <= Len(s) /\ s[i] = "\"" THEN ScanString(s, i) ELSE ScanFail
        c == SkipWs(s, k.next)
        v == IF k.ok /\ c <= Len(s) /\ s[c] = ":"
             THEN ScanValue(s, SkipWs(s, c + 1)) ELSE ScanFail
        j == SkipWs(s, v.next)
    IN IF ~v.ok \/ j > Len(s) THEN ScanFail
       ELSE IF s[j] = "," THEN ScanMembers(s, SkipWs(s, j + 1))
       ELSE IF s[j] = "}" THEN Scanned("object", j + 1, <<>>, <<>>)
       ELSE ScanFail

\* json.Unmarshal(data, &cardNames) with cardNames nil before the call.
\* checkValid rejects a text that is not one JSON value and leaves the slice
\* untouched.  An array is decoded element by element: a string is stored, null
\* leaves the element "", any other element leaves "" and records an
\* UnmarshalTypeError while decoding goes on.  Top-level null sets the slice to
\* nil without an error; any other top-level value is an UnmarshalTypeError.
Unmarshal(data) ==
    LET v     == ScanValue(data, SkipWs(data, 1))
        valid == v.ok /\ SkipWs(data, v.next) = Len(data) + 1
    IN IF ~valid THEN [err |-> TRUE, val |-> <<>>]
       ELSE IF v.kind = "array"
            THEN [err |-> \E i \in 1..Len(v.elems) :
                              v.elems[i].kind \notin {"string", "null"},
                  val |-> [i \in 1..Len(v.elems) |->
                              IF v.elems[i].kind = "string" THEN v.elems[i].str
                              ELSE <<>>]]
       ELSE IF v.kind = "null" THEN [err |-> FALSE, val |-> <<>>]
       ELSE [err |-> TRUE, val |-> <<>>]

----------------------------------------------------------------------------
(* handleValidateDeck: the decklist parser *)

\* The name a trimmed, non-empty line contributes: the part after the first
\* space when Sscanf reads an integer from the part before it, else the line.
LineName(line) ==
    LET parts == SplitN2(line, " ")
    IN IF Len(parts) = 2 /\ SscanfIntOk(parts[1])
       THEN TrimSpace(parts[2])
       ELSE line

\* What one iteration of the loop over the lines appends: nothing for a blank
\* line, the name of the line otherwise.
TextStep(rawLine) ==
    LET line == TrimSpace(rawLine)
    IN IF line = <<>> THEN <<>> ELSE <<LineName(line)>>

\* What the iterations lo..hi of the loop append, in order.
RECURSIVE TextModeRange(_, _, _)
TextModeRange(lines, lo, hi) ==
    IF lo > hi THEN <<>>
    ELSE IF lo = hi THEN TextStep(lines[lo])
    ELSE LET mid == (lo + hi) \div 2
         IN TextModeRange(lines, lo, mid) \o TextModeRange(lines, mid + 1, hi)

\* The loop over the lines: each non-blank line is appended to names.
TextMode(lines, names) == names \o TextModeRange(lines, 1, Len(lines))

\* ParseCardNames with the JSON entries trimmed as the text entries are
ParseCardNames_Trimmed(raw) ==
    LET u == Unmarshal(raw)
    IN IF u.err THEN TextMode(Split(raw, "\n"), u.val)
       ELSE [i \in 1..Len(u.val) |-> TrimSpace(u.val[i])]

\* cardNames after the parse: the text loop appends to whatever json.Unmarshal
\* left in cardNames when it returned an error.
ParseCardNames(raw) ==
    LET u == Unmarshal(raw)
    IN IF u.err THEN TextMode(Split(raw, "\n"), u.val) ELSE u.val

----------------------------------------------------------------------------
(* handleValidateDeck: the checks *)

sLegendary == <<"l", "e", "g", "e", "n", "d", "a", "r", "y">>

sCanBeYourCommander ==
    <<"c", "a", "n", " ", "b", "e", " ", "y", "o", "u", "r", " ",
      "c", "o", "m", "m", "a", "n", "d", "e", "r">>

basicLands ==
    { <<"p", "l", "a", "i", "n", "s">>, <<"i", "s", "l", "a", "n", "d">>,
      <<"s", "w", "a", "m", "p">>, <<"m", "o", "u", "n", "t", "a", "i", "n">>,
      <<"f", "o", "r", "e", "s", "t">>, <<"w", "a", "s", "t", "e", "s">> }

\* deck size that passes
DeckSize == 99
\* deck size that passes with a note
DeckSizeWithCommander == 100

\* one WriteString to output
W(tag, txt, n) == [tag |-> tag, txt |-> txt, n |-> n]

\* "Check if commander is legal": only "banned" writes anything
LegalityLines(card) ==
    IF card.legality = "banned" THEN <<W("banned_error", <<>>, 0)>> ELSE <<>>

isLegendary(card) == Contains(ToLower(card.typeLine), sLegendary)

\* canBeCommander without the oracle-text alternative
canBeCommander_LegendaryOnly(card) == isLegendary(card)

canBeCommander(card) ==
    isLegendary(card) \/ Contains(ToLower(card.oracleText), sCanBeYourCommander)

EligibilityLines(card) ==
    IF ~canBeCommander(card) THEN <<W("cannot_be_commander_error", <<>>, 0)>> ELSE <<>>

\* DeckSizeLines that accepts every deck of at least DeckSize entries
DeckSizeLines_AtLeast(totalCards) ==
    <<W("deck_size", <<>>, totalCards)>>
    \o (IF totalCards >= DeckSize THEN <<W("size_ok", <<>>, 0)>>
        ELSE <<W("size_error", <<>>, 0)>>)

DeckSizeLines(totalCards) ==
    <<W("deck_size", <<>>, totalCards)>>
    \o (IF totalCards = DeckSize THEN <<W("size_ok", <<>>, 0)>>
        ELSE IF totalCards = DeckSizeWithCommander THEN <<W("size_note", <<>>, 0)>>
        ELSE <<W("size_error", <<>>, 0)>>)

\* TallyKey without the lower-casing
TallyKey_CaseSensitive(name) == TrimSpace(name)

\* the key of a decklist entry in cardCounts
TallyKey(name) == ToLower(TrimSpace(name))

\* a map after the increments that led to a and those that led to b: a missing
\* key reads as 0, as cardCounts[key]++ reads it
AddCounts(a, b) ==
    [k \in DOMAIN a \cup DOMAIN b |->
        (IF k \in DOMAIN a THEN a[k] ELSE 0) + (IF k \in DOMAIN b THEN b[k] ELSE 0)]

\* the increments of the iterations lo..hi of the loop over cardNames
RECURSIVE TallyRange(_, _, _)
TallyRange(names, lo, hi) ==
    IF lo > hi THEN [k \in {} |-> 0]
    ELSE IF lo = hi THEN (TallyKey(names[lo]) :> 1)
    ELSE LET mid == (lo + hi) \div 2
         IN AddCounts(TallyRange(names, lo, mid), TallyRange(names, mid + 1, hi))

\* for _, name := range cardNames { cardCounts[key]++ }
Tally(names, counts) == AddCounts(counts, TallyRange(names, 1, Len(names)))

\* IsBasic on a substring match instead of equality
IsBasic_Substring(name) == \E basic \in basicLands : Contains(name, basic)

\* the inner loop over basicLands
IsBasic(name) == \E basic \in basicLands : name = basic

\* fmt.Sprintf("%s (x%d)", name, count)
DupEntry(name, count) == name \o <<" ", "(", "x">> \o Itoa(count) \o <<")">>

\* the orders in which a range over a map with these keys may visit them
RECURSIVE MapOrders(_)
MapOrders(keys) ==
    IF keys = {} THEN {<<>>}
    ELSE UNION {{<<k>> \o rest : rest \in MapOrders(keys \ {k})} : k \in keys}

\* Duplicates without the basic-land exemption
RECURSIVE Duplicates_NoExemption(_, _)
Duplicates_NoExemption(order, counts) ==
    IF order = <<>> THEN <<>>
    ELSE LET name == Head(order)
             rest == Duplicates_NoExemption(Tail(order), counts)
         IN IF counts[name] > 1
            THEN <<DupEntry(name, counts[name])>> \o rest
            ELSE rest

\* for name, count := range cardCounts, visiting the keys in this order
RECURSIVE Duplicates(_, _)
Duplicates(order, counts) ==
    IF order = <<>> THEN <<>>
    ELSE LET name == Head(order)
             rest == Duplicates(Tail(order), counts)
         IN IF counts[name] > 1 /\ ~IsBasic(name)
            THEN <<DupEntry(name, counts[name])>> \o rest
            ELSE rest

SingletonLines(dups) ==
    <<W("singleton_rule", <<>>, 0)>>
    \o (IF Len(dups) = 0 THEN <<W("no_duplicates", <<>>, 0)>>
        ELSE <<W("found_duplicates", <<>>, 0)>>
             \o [i \in 1..Len(dups) |-> W("dup", dups[i], 0)])

\* ReportLines without the closing note when the deck has no duplicate
ReportLines_NoteOnDuplicates(card, names, dups) ==
    <<W("commander", card.name, 0),
      W("color_identity", Join(card.colorIdentity, <<",", " ">>), 0)>>
    \o LegalityLines(card)
    \o EligibilityLines(card)
    \o DeckSizeLines(Len(names))
    \o SingletonLines(dups)
    \o (IF Len(dups) = 0 THEN <<>> ELSE <<W("color_identity_note", <<>>, 0)>>)

\* ReportLines with the deck-size section written before the commander checks
ReportLines_SizeFirst(card, names, dups) ==
    <<W("commander", card.name, 0),
      W("color_identity", Join(card.colorIdentity, <<",", " ">>), 0)>>
    \o DeckSizeLines(Len(names))
    \o LegalityLines(card)
    \o EligibilityLines(card)
    \o SingletonLines(dups)
    \o <<W("color_identity_note", <<>>, 0)>>

\* everything written after the commander was found
ReportLines(card, names, dups) ==
    <<W("commander", card.name, 0),
      W("color_identity", Join(card.colorIdentity, <<",", " ">>), 0)>>
    \o LegalityLines(card)
    \o EligibilityLines(card)
    \o DeckSizeLines(Len(names))
    \o SingletonLines(dups)
    \o <<W("color_identity_note", <<>>, 0)>>

----------------------------------------------------------------------------
(* The requests: raw decklists and the cards the resolver may return *)

SeqsUpTo(S, n) == UNION {[1..k -> S] : k \in 0..n}

\* card names a decklist is written from
Names ==
    { <<"S", "o", "l", " ", "R", "i", "n", "g">>,
      <<"s", "o", "l", " ", "r", "i", "n", "g", " ">>,
      <<"F", "o", "r", "e", "s", "t">>,
      <<"S", "n", "o", "w", "-", "C", "o", "v", "e", "r", "e", "d", " ",
        "F", "o", "r", "e", "s", "t">> }

JStr(str) == [kind |-> "string", str |-> str]
JRaw(kind, text) == [kind |-> kind, str |-> text]

\* elements of a JSON array: strings and values that are no strings
Elements ==
    { JStr(<<"2", " ", "S", "o", "l", " ", "R", "i", "n", "g">>),
      JStr(<<"f", "o", "r", "e", "s", "t">>),
      JStr(<<>>),
      JStr(<<" ">>),
      JRaw("number", <<"1">>),
      JRaw("null", <<"n", "u", "l", "l">>),
      JRaw("array", <<"[", "\"", "a", "\"", "]">>),
      JRaw("object", <<"{", "\"", "a", "\"", ":", "1", "}">>) }

\* JSON values that are no arrays
Scalars ==
    { JRaw("null", <<"n", "u", "l", "l">>),
      JRaw("number", <<"5">>),
      JRaw("bool", <<"t", "r", "u", "e">>),
      JRaw("object", <<"{", "}">>),
      JStr(<<"F", "o", "r", "e", "s", "t">>) }

\* lines of a free-text decklist
Lines ==
    { <<"1", " ", "S", "o", "l", " ", "R", "i", "n", "g">>,
      <<"F", "o", "r", "e", "s", "t">>,
      <<"2", " ", "M", "o", "u", "n", "t", "a", "i", "n">>,
      <<"2", "x", " ", "S", "o", "l", " ", "R", "i", "n", "g">>,
      <<"+", "2", " ", "M", "a", "c", "e">>,
      <<" ", "1", "0", " ", " ", "F", "o", "r", "e", "s", "t", " ">>,
      <<" ", " ">> }

\* characters of an arbitrary raw string
Alphabet == {"[", "]", "\"", ",", "1", "a", " ", "\n"}

EncodeElem(e) == IF e.kind = "string" THEN <<"\"">> \o e.str \o <<"\"">> ELSE e.str

\* a JSON array in the compact or in the spaced layout
EncodeArray(elems, style) ==
    LET texts == [i \in 1..Len(elems) |-> EncodeElem(elems[i])]
    IN IF style = "compact" THEN <<"[">> \o Join(texts, <<",">>) \o <<"]">>
       ELSE <<" ", "[", " ">> \o Join(texts, <<" ", ",", "\n", " ">>) \o <<" ", "]", "\n">>

\* a text decklist of these names, each with the quantity 1
QuantityLines(names) == [i \in 1..Len(names) |-> <<"1", " ">> \o names[i]]

\* a decklist with two copies of Sol Ring and five of Forest
TallyExample ==
    LET forest == <<"F", "o", "r", "e", "s", "t">>
    IN << <<"1", " ", "S", "o", "l", " ", "R", "i", "n", "g">>,
          forest, forest, <<"1", " ">> \o forest, forest,
          <<"s", "o", "l", " ", "r", "i", "n", "g">>,
          <<"f", "o", "r", "e", "s", "t">> >>

\* a text decklist of n lines "4 Forest"
SizedDeck(n) == [i \in 1..n |-> <<"4", " ", "F", "o", "r", "e", "s", "t">>]

Shape(kind, style, elems) == [kind |-> kind, style |-> style, elems |-> elems]

\* the empty decklist
EmptyShape == Shape("chars", "", <<JRaw("chars", <<>>)>>)

Shapes ==
    {Shape("array", "compact", [i \in 1..Len(ns) |-> JStr(ns[i])]) :
        ns \in SeqsUpTo(Names, MaxEntries)}
    \cup {Shape("text", "", [i \in 1..Len(ns) |-> JRaw("line", QuantityLines(ns)[i])]) :
        ns \in SeqsUpTo(Names, MaxEntries)}
    \cup {Shape("array", st, es) :
        st \in {"compact", "spaced"}, es \in SeqsUpTo(Elements, MaxElems)}
    \cup {Shape("scalar", "", <<e>>) : e \in Scalars}
    \cup {Shape("text", "", [i \in 1..Len(ls) |-> JRaw("line", ls[i])]) :
        ls \in SeqsUpTo(Lines, MaxLines)}
    \cup {Shape("chars", "", <<JRaw("chars", cs)>>) : cs \in SeqsUpTo(Alphabet, MaxLen)}
    \cup {Shape("text", "", [i \in 1..Len(TallyExample) |-> JRaw("line", TallyExample[i])])}
    \cup {Shape("text", "", [i \in 1..n |-> JRaw("line", SizedDeck(n)[i])]) :
        n \in (DeckSize - 1)..(DeckSizeWithCommander + 1)}

\* the raw decklist a shape stands for
Render(sh) ==
    CASE sh.kind = "array" -> EncodeArray(sh.elems, sh.style)
      [] sh.kind = "scalar" -> EncodeElem(sh.elems[1])
      [] sh.kind = "text" -> Join([i \in 1..Len(sh.elems) |-> sh.elems[i].str], <<"\n">>)
      [] OTHER -> sh.elems[1].str

Card(name, typeLine, oracleText, colorIdentity, legality) ==
    [name |-> name, typeLine |-> typeLine, oracleText |-> oracleText,
     colorIdentity |-> colorIdentity, legality |-> legality]

NoCard == Card(<<>>, <<>>, <<>>, <<>>, "")

tLegendaryCreature ==
    <<"L", "e", "g", "e", "n", "d", "a", "r", "y", " ",
      "C", "r", "e", "a", "t", "u", "r", "e">>

tPlaneswalker == <<"P", "l", "a", "n", "e", "s", "w", "a", "l", "k", "e", "r">>

oCanBeCommander ==
    <<"D", "a", "r", "e", "t", "t", "i", " ", "c", "a", "n", " ", "b", "e", " ",
      "y", "o", "u", "r", " ", "c", "o", "m", "m", "a", "n", "d", "e", "r", ".">>

oFlying == <<"F", "l", "y", "i", "n", "g">>

\* cards GetCardByName may return
Cards ==
    { Card(<<"A", "t", "r", "a", "x", "a">>, tLegendaryCreature, oFlying,
           <<<<"B">>, <<"G">>, <<"U">>, <<"W">>>>, "legal"),
      Card(<<"G", "o", "l", "o", "s">>, tLegendaryCreature, <<>>, <<>>, "banned"),
      Card(<<"G", "a", "r", "f", "i", "e", "l", "d">>, tLegendaryCreature, <<>>,
           <<<<"U">>>>, "not_legal"),
      Card(<<"D", "a", "r", "e", "t", "t", "i">>, tPlaneswalker, oCanBeCommander,
           <<<<"R">>>>, "legal"),
      Card(<<"J", "a", "c", "e">>, tPlaneswalker, oFlying, <<<<"U">>>>, "restricted"),
      Card(<<"S", "o", "l", " ", "R", "i", "n", "g">>,
           <<"A", "r", "t", "i", "f", "a", "c", "t">>, <<>>, <<>>, "banned"),
      Card(<<"T", "o", "k", "e", "n">>, <<"L", "E", "G", "E", "N", "D">>,
           <<"C", "A", "N", " ", "B", "E", " ", "Y", "O", "U", "R", " ",
             "C", "O", "M", "M", "A", "N", "D", "E", "R">>, <<>>, "") }

----------------------------------------------------------------------------
(* The handler, step by step *)

EmptyCounts == [k \in {} |-> 0]

\* the errors GetCardByName returns while ctx is live
ResolverErrors == {"not_found", "transient"}

\* the calls of the handler that may run at the same time
Calls == {1, 2}

\* the locals of a call that has not started
IdleCall ==
    [pc |-> "idle", hasArgs |-> TRUE, after |-> FALSE, decklistStr |-> <<>>,
     cardNames |-> <<>>, commander |-> NoCard, resolveErr |-> "",
     cardCounts |-> EmptyCounts, duplicates |-> <<>>, result |-> "none",
     resultText |-> <<>>, alone |-> <<>>]

IdleCalls == [c \in Calls |-> IdleCall]

\* the strings.Builder values of the calls, all empty
IdleBuilders == [b \in Calls |-> <<>>]

\* no function is being called
PureIdle == at = "idle" /\ arg = <<>> /\ ret = <<>> /\ again = <<>>

\* newLoggerInstance: a logger that writes to stderr, without caller
newLoggerInstance == [writers |-> <<"stderr">>, caller |-> FALSE]

\* no call of the logger functions was made
NoLoggerCall ==
    [op |-> "none", arg |-> "", failed |-> FALSE,
     logger |-> newLoggerInstance, level |-> "DebugLevel"]

\* the logger as the program starts: zerolog's global level is its zero
\* value, DebugLevel
LoggerIdle ==
    /\ loggerHolder = newLoggerInstance
    /\ globalLevel = "DebugLevel"
    /\ lastCall = NoLoggerCall

\* Update has not handled a message
NoUpdate == [kind |-> "none", input |-> "", messages |-> <<>>, started |-> 0]

\* initialModel
ChatIdle ==
    /\ messages = <<>>
    /\ textarea = ""
    /\ cmds = <<>>
    /\ inbox = <<>>
    /\ quitting = FALSE
    /\ lastUpdate = NoUpdate

\* nothing happens outside the validate_deck handler
ElsewhereIdle == PureIdle /\ LoggerIdle /\ ChatIdle

\* the state of the handler when a request arrives
Arrived ==
    /\ pc = "start"
    /\ decklistStr = Render(shape)
    /\ jsonErr = FALSE
    /\ cardNames = <<>>
    /\ commander = NoCard
    /\ cardCounts = EmptyCounts
    /\ duplicates = <<>>
    /\ output = <<>>
    /\ result = "none"
    /\ resultText = <<>>
    /\ resolverCalls = 0
    /\ resolveErr = ""
    /\ cancelledAt = "none"

Init ==
    /\ \/ /\ hasCommander = TRUE
          /\ hasDecklist = TRUE
          /\ shape \in Shapes
       \/ /\ hasCommander \in BOOLEAN
          /\ hasDecklist = ~hasCommander
          /\ shape = EmptyShape
    /\ Arrived
    /\ callState = IdleCalls
    /\ builders = IdleBuilders
    /\ ElsewhereIdle

\* request.RequireString("commander") or ("decklist") fails
MissingArgument ==
    /\ pc = "start"
    /\ ~(hasCommander /\ hasDecklist)
    /\ pc' = "done"
    /\ result' = "error"
    /\ resultText' = <<W("missing_argument", <<>>, 0)>>
    /\ UNCHANGED <<request, jsonErr, cardNames, commander, cardCounts, duplicates,
                   output, resolverCalls, resolveErr, cancelledAt, concurrent, elsewhere>>

\* the decklist is parsed and the title is written
ParseDecklist ==
    /\ pc = "start"
    /\ hasCommander /\ hasDecklist
    /\ jsonErr' = Unmarshal(decklistStr).err
    /\ cardNames' = ParseCardNames(decklistStr)
    /\ output' = <<W("title", <<>>, 0)>>
    /\ pc' = "parsed"
    /\ UNCHANGED <<request, commander, cardCounts, duplicates, result, resultText,
                   resolverCalls, resolveErr, cancelledAt, concurrent, elsewhere>>

\* s.scryfallClient.GetCardByName(ctx, commanderName, ...) is called
CallResolver ==
    /\ pc = "parsed"
    /\ resolverCalls' = resolverCalls + 1
    /\ pc' = "resolving"
    /\ UNCHANGED <<request, jsonErr, cardNames, commander, cardCounts, duplicates,
                   output, result, resultText, resolveErr, cancelledAt, concurrent, elsewhere>>

\* CommanderNotFound that goes on to the checks without a commander
CommanderNotFound_Degraded ==
    /\ pc = "resolving"
    /\ \E e \in (IF cancelledAt = "none" THEN ResolverErrors ELSE {"cancelled"}) :
          resolveErr' = e
    /\ pc' = "resolved"
    /\ UNCHANGED <<request, jsonErr, cardNames, commander, cardCounts, duplicates,
                   output, result, resultText, resolverCalls, cancelledAt, concurrent, elsewhere>>

\* CommanderNotFound that returns what the builder holds so far
CommanderNotFound_Partial ==
    /\ pc = "resolving"
    /\ \E e \in (IF cancelledAt = "none" THEN ResolverErrors ELSE {"cancelled"}) :
          resolveErr' = e
    /\ pc' = "done"
    /\ result' = "text"
    /\ resultText' = output
    /\ UNCHANGED <<request, jsonErr, cardNames, commander, cardCounts, duplicates,
                   output, resolverCalls, cancelledAt, concurrent, elsewhere>>

\* CommanderNotFound that calls the resolver once more before it gives up
CommanderNotFound_Retry ==
    /\ pc = "resolving"
    /\ \E e \in (IF cancelledAt = "none" THEN ResolverErrors ELSE {"cancelled"}) :
          resolveErr' = e
    /\ IF resolverCalls < 2
       THEN /\ pc' = "parsed"
            /\ UNCHANGED <<result, resultText>>
       ELSE /\ pc' = "done"
            /\ result' = "error"
            /\ resultText' = <<W("commander_not_found", <<>>, 0)>>
    /\ UNCHANGED <<request, jsonErr, cardNames, commander, cardCounts, duplicates,
                   output, resolverCalls, cancelledAt, concurrent, elsewhere>>

\* GetCardByName returns an error (a cancelled ctx makes it return one): the
\* handler returns an error result
CommanderNotFound ==
    /\ pc = "resolving"
    /\ \E e \in (IF cancelledAt = "none" THEN ResolverErrors ELSE {"cancelled"}) :
          resolveErr' = e
    /\ pc' = "done"
    /\ result' = "error"
    /\ resultText' = <<W("commander_not_found", <<>>, 0)>>
    /\ UNCHANGED <<request, jsonErr, cardNames, commander, cardCounts, duplicates,
                   output, resolverCalls, cancelledAt, concurrent, elsewhere>>

\* GetCardByName returns a card
CommanderFound ==
    /\ pc = "resolving"
    /\ cancelledAt = "none"
    /\ \E card \in Cards : commander' = card
    /\ pc' = "resolved"
    /\ UNCHANGED <<request, jsonErr, cardNames, cardCounts, duplicates, output,
                   result, resultText, resolverCalls, resolveErr, cancelledAt,
                   concurrent, elsewhere>>

\* the checks are made and the report is returned
WriteReport ==
    /\ pc = "resolved"
    /\ cardCounts' = Tally(cardNames, EmptyCounts)
    /\ \E order \in MapOrders(DOMAIN cardCounts') :
          duplicates' = Duplicates(order, cardCounts')
    /\ output' = output \o ReportLines(commander, cardNames, duplicates')
    /\ result' = "text"
    /\ resultText' = output'
    /\ pc' = "done"
    /\ UNCHANGED <<request, jsonErr, cardNames, commander, resolverCalls, resolveErr,
                   cancelledAt, concurrent, elsewhere>>

Next ==
    \/ MissingArgument
    \/ ParseDecklist
    \/ CallResolver
    \/ CommanderNotFound
    \/ CommanderFound
    \/ WriteReport

Spec == Init /\ [][Next]_vars

----------------------------------------------------------------------------
(* The handler under a ctx that may be cancelled *)

\* decklists of at most one line
ShortShapes ==
    {Shape("text", "", [i \in 1..Len(ls) |-> JRaw("line", ls[i])]) : ls \in SeqsUpTo(Lines, 1)}

InitCancel ==
    /\ \/ /\ hasCommander = TRUE
          /\ hasDecklist = TRUE
          /\ shape \in ShortShapes
       \/ /\ hasCommander \in BOOLEAN
          /\ hasDecklist = ~hasCommander
          /\ shape = EmptyShape
    /\ Arrived
    /\ callState = IdleCalls
    /\ builders = IdleBuilders
    /\ ElsewhereIdle

\* ctx is cancelled, or its deadline passes, while the handler is at pc; the
\* handler itself never looks at ctx, it only hands it to GetCardByName
CancelContext ==
    /\ pc # "done"
    /\ cancelledAt = "none"
    /\ cancelledAt' = pc
    /\ UNCHANGED <<request, pc, jsonErr, cardNames, commander, cardCounts, duplicates,
                   output, result, resultText, resolverCalls, resolveErr, concurrent, elsewhere>>

NextCancel == Next \/ CancelContext

SpecCancel == InitCancel /\ [][NextCancel]_vars

----------------------------------------------------------------------------
(* Two calls of the handler at the same time *)

\* the builder a call writes to: its own local variable output
BufferOf(c) == c

Other(c) == CHOOSE d \in Calls : d # c

\* the decklists of the concurrent calls
ConcurrentShapes ==
    { Shape("array", "compact",
            << JStr(<<"S", "o", "l", " ", "R", "i", "n", "g">>),
               JStr(<<"s", "o", "l", " ", "r", "i", "n", "g", " ">>),
               JStr(<<"M", "a", "c", "e">>),
               JStr(<<"M", "a", "c", "e">>) >>),
      Shape("text", "", << JRaw("line", <<"1", " ", "S", "o", "l", " ", "R", "i", "n", "g">>),
                           JRaw("line", <<"F", "o", "r", "e", "s", "t">>) >>),
      EmptyShape }

\* the cards the resolver returns to the concurrent calls
ConcurrentCards == {card \in Cards : card.legality \in {"legal", "banned"}}

InitConcurrent ==
    /\ hasCommander = TRUE
    /\ hasDecklist = TRUE
    /\ shape = EmptyShape
    /\ Arrived
    /\ callState = IdleCalls
    /\ builders = IdleBuilders
    /\ ElsewhereIdle

single ==
    <<request, pc, jsonErr, cardNames, commander, cardCounts, duplicates, output,
      result, resultText, resolverCalls, resolveErr, cancelledAt>>

\* a request arrives: after records whether the other call was over by then
CallArrives(c) ==
    /\ callState[c].pc = "idle"
    /\ \E sh \in ConcurrentShapes, args \in BOOLEAN :
          callState' = [callState EXCEPT ![c] =
              [@ EXCEPT !.pc = "start", !.hasArgs = args,
                        !.decklistStr = IF args THEN Render(sh) ELSE <<>>,
                        !.after = (callState[Other(c)].pc = "done")]]
    /\ UNCHANGED <<single, builders, elsewhere>>

CallMissingArgument(c) ==
    /\ callState[c].pc = "start"
    /\ ~callState[c].hasArgs
    /\ callState' = [callState EXCEPT ![c] =
          [@ EXCEPT !.pc = "done", !.result = "error",
                    !.resultText = <<W("missing_argument", <<>>, 0)>>]]
    /\ UNCHANGED <<single, builders, elsewhere>>

CallParseDecklist(c) ==
    /\ callState[c].pc = "start"
    /\ callState[c].hasArgs
    /\ callState' = [callState EXCEPT ![c] =
          [@ EXCEPT !.pc = "parsed", !.cardNames = ParseCardNames(callState[c].decklistStr)]]
    /\ builders' = [builders EXCEPT ![BufferOf(c)] = @ \o <<W("title", <<>>, 0)>>]
    /\ UNCHANGED <<single, elsewhere>>

CallQueriesResolver(c) ==
    /\ callState[c].pc = "parsed"
    /\ callState' = [callState EXCEPT ![c] = [@ EXCEPT !.pc = "resolving"]]
    /\ UNCHANGED <<single, builders, elsewhere>>

CallCommanderNotFound(c) ==
    /\ callState[c].pc = "resolving"
    /\ \E e \in ResolverErrors :
          callState' = [callState EXCEPT ![c] =
              [@ EXCEPT !.pc = "done", !.resolveErr = e, !.result = "error",
                        !.resultText = <<W("commander_not_found", <<>>, 0)>>]]
    /\ UNCHANGED <<single, builders, elsewhere>>

CallCommanderFound(c) ==
    /\ callState[c].pc = "resolving"
    /\ \E card \in ConcurrentCards :
          callState' = [callState EXCEPT ![c] =
              [@ EXCEPT !.pc = "resolved", !.commander = card]]
    /\ UNCHANGED <<single, builders, elsewhere>>

\* the checks of call c; alone is a report the same call returns when no other
\* call runs: the title and the report lines, the map visited in some order
CallWriteReport(c) ==
    /\ callState[c].pc = "resolved"
    /\ LET me     == callState[c]
           counts == Tally(me.cardNames, EmptyCounts)
       IN \E order, aloneOrder \in MapOrders(DOMAIN counts) :
             LET dups == Duplicates(order, counts)
                 text == builders[BufferOf(c)] \o ReportLines(me.commander, me.cardNames, dups)
             IN /\ builders' = [builders EXCEPT ![BufferOf(c)] = text]
                /\ callState' = [callState EXCEPT ![c] =
                      [@ EXCEPT !.pc = "done", !.cardCounts = counts,
                                !.duplicates = dups, !.result = "text",
                                !.resultText = text,
                                !.alone = <<W("title", <<>>, 0)>>
                                          \o ReportLines(me.commander, me.cardNames,
                                                         Duplicates(aloneOrder, counts))]]
    /\ UNCHANGED <<single, elsewhere>>

NextConcurrent ==
    \E c \in Calls :
        \/ CallArrives(c)
        \/ CallMissingArgument(c)
        \/ CallParseDecklist(c)
        \/ CallQueriesResolver(c)
        \/ CallCommanderNotFound(c)
        \/ CallCommanderFound(c)
        \/ CallWriteReport(c)

SpecConcurrent == InitConcurrent /\ [][NextConcurrent]_vars

----------------------------------------------------------------------------
(* Properties of the decklist parser *)

\* the decklist has been parsed
Parsed == pc # "start" /\ hasCommander /\ hasDecklist

\* the handler has returned a report
Reported == pc = "done" /\ result = "text"

\* the raw decklist was written as a JSON array whose elements are all strings
IsStringArray(sh) ==
    sh.kind = "array" /\ \A i \in 1..Len(sh.elems) : sh.elems[i].kind = "string"

\* the raw decklist was written as a JSON value
IsJSONValue(sh) == sh.kind \in {"array", "scalar"}

\* the strings a JSON array was written from
StringsOf(sh) == [i \in 1..Len(sh.elems) |-> sh.elems[i].str]

\* C1: a raw decklist that is a JSON array of strings is parsed to exactly that
\* sequence: same length, same order, every name as it was written (casing and
\* surrounding white space kept), and text mode does not run.
C1_JSONArrayKept ==
    (Parsed /\ IsStringArray(shape)) => (cardNames = StringsOf(shape) /\ ~jsonErr)

\* C1 witness: a parsed JSON array of two strings in the spaced layout, the first
\* with capitals and a quantity prefix the text rule would strip, the second
\* with white space a trim would cut
C1_Witness ==
    /\ Parsed /\ IsStringArray(shape) /\ shape.style = "spaced"
    /\ Len(cardNames) = 2
    /\ cardNames[1] # ToLower(cardNames[1])
    /\ cardNames[1] # LineName(cardNames[1])
    /\ cardNames[2] # TrimSpace(cardNames[2])

\* a token that is an integer over its whole length: an optional sign, digits
IsInteger(tok) ==
    LET body == IF tok # <<>> /\ Head(tok) \in {"+", "-"} THEN Tail(tok) ELSE tok
    IN body # <<>> /\ \A i \in 1..Len(body) : body[i] \in Digits

\* the name the text rule gives for one trimmed line
RuleName(line) ==
    LET k == IndexFrom(line, " ", 1)
    IN IF k <= Len(line) /\ IsInteger(SubSeq(line, 1, k - 1))
       THEN TrimSpace(SubSeq(line, k + 1, Len(line)))
       ELSE line

\* the trimmed non-blank lines of a raw decklist, in order
NonBlankLines(raw) ==
    LET lines == Split(raw, "\n")
    IN SelectSeq([i \in 1..Len(lines) |-> TrimSpace(lines[i])], LAMBDA l : l # <<>>)

\* the text decklist was not a JSON text at all: Unmarshal left cardNames empty
PlainText == Parsed /\ jsonErr /\ Unmarshal(decklistStr).val = <<>>

\* C2: in text mode every non-empty trimmed line gives one name: the trimmed part
\* after the first space when the part before it is an integer, the whole
\* trimmed line in every other case.
C2_IntegerTokenStripped ==
    PlainText =>
        cardNames = [i \in 1..Len(NonBlankLines(decklistStr)) |->
                        RuleName(NonBlankLines(decklistStr)[i])]

\* C3: a raw decklist that is a JSON value other than an array of strings is
\* parsed as text: the result is the text-mode parse of the raw string with
\* nothing left from the JSON attempt.
C3_NonStringArrayIsText ==
    (Parsed /\ IsJSONValue(shape) /\ ~IsStringArray(shape)) =>
        (jsonErr /\ cardNames = TextMode(Split(decklistStr, "\n"), <<>>))

\* C4: no entry of the parsed decklist is empty or only white space.
C4_NoBlankEntry ==
    Parsed => \A i \in 1..Len(cardNames) : TrimSpace(cardNames[i]) # <<>>

\* C5: when text mode runs, the parsed decklist has as many entries as the raw
\* decklist has non-blank lines.
C5_OneEntryPerLine ==
    (Parsed /\ jsonErr) => Len(cardNames) = Len(NonBlankLines(decklistStr))

----------------------------------------------------------------------------
(* Properties of the checks *)

\* the positions of the decklist entries with this trimmed, lower-cased form
EntriesOf(k) == {i \in 1..Len(cardNames) : ToLower(TrimSpace(cardNames[i])) = k}

RECURSIVE SumCounts(_, _)
SumCounts(counts, keys) ==
    IF keys = {} THEN 0
    ELSE LET k == CHOOSE x \in keys : TRUE
         IN counts[k] + SumCounts(counts, keys \ {k})

\* C6: the tally is keyed by the trimmed, lower-cased name: every entry is
\* counted under that key, each count is the number of entries with that key,
\* and the counts sum to the number of entries.
C6_TallyCaseAndSpaceInsensitive ==
    Reported =>
        /\ \A i \in 1..Len(cardNames) :
              ToLower(TrimSpace(cardNames[i])) \in DOMAIN cardCounts
        /\ \A k \in DOMAIN cardCounts : cardCounts[k] = Cardinality(EntriesOf(k))
        /\ SumCounts(cardCounts, DOMAIN cardCounts) = Len(cardNames)

\* C6 witness: two entries written differently (casing, trailing space) are
\* counted under one key
C6_Witness ==
    /\ Reported
    /\ \E i, j \in 1..Len(cardNames) :
          /\ cardNames[i] # cardNames[j]
          /\ TrimSpace(cardNames[i]) # TrimSpace(cardNames[j])
          /\ cardNames[j] # TrimSpace(cardNames[j])
          /\ ToLower(TrimSpace(cardNames[i])) = ToLower(TrimSpace(cardNames[j]))
          /\ cardCounts[ToLower(TrimSpace(cardNames[i]))] = 2

\* the six names that may be repeated
SixBasicNames ==
    { <<"p", "l", "a", "i", "n", "s">>, <<"i", "s", "l", "a", "n", "d">>,
      <<"s", "w", "a", "m", "p">>, <<"m", "o", "u", "n", "t", "a", "i", "n">>,
      <<"f", "o", "r", "e", "s", "t">>, <<"w", "a", "s", "t", "e", "s">> }

sSnowCoveredForest ==
    <<"s", "n", "o", "w", "-", "c", "o", "v", "e", "r", "e", "d", " ",
      "f", "o", "r", "e", "s", "t">>

sSolRing == <<"s", "o", "l", " ", "r", "i", "n", "g">>

\* the report holds a line with this tag
HasLine(tag) == \E i \in 1..Len(output) : output[i].tag = tag

\* the tally keys that break the singleton rule
Violating == {k \in DOMAIN cardCounts : cardCounts[k] > 1 /\ k \notin SixBasicNames}

\* C7: the singleton verdict passes exactly when no tally key other than the six
\* basic names has a count above 1; otherwise it fails, and it is one or the other.
C7_SingletonVerdict ==
    Reported =>
        /\ HasLine("no_duplicates") <=> (Violating = {})
        /\ HasLine("found_duplicates") <=> (Violating # {})

\* C7 witness: the only repeated name is a snow-covered basic, and the verdict fails
C7_Witness ==
    /\ Reported
    /\ Violating = {sSnowCoveredForest}
    /\ HasLine("found_duplicates")

\* the entry the report shows for a violating name: "name (xN)"
ShownAs(k) == k \o <<" ", "(", "x">> \o Itoa(cardCounts[k]) \o <<")">>

\* the "dup" lines of the report, in order
DupLines == SelectSeq(output, LAMBDA l : l.tag = "dup")

\* C8: the offending entries are exactly the violating names, one entry each in
\* the form "name (xN)", with no exempt basic land among them; the report lists
\* them as they are.
C8_OffendingEntries ==
    Reported =>
        /\ Len(duplicates) = Cardinality(Violating)
        /\ \A k \in Violating : \E i \in 1..Len(duplicates) : duplicates[i] = ShownAs(k)
        /\ \A i \in 1..Len(duplicates) : \E k \in Violating : duplicates[i] = ShownAs(k)
        /\ DupLines = [i \in 1..Len(duplicates) |-> W("dup", duplicates[i], 0)]

\* C8 witness: tally {sol ring: 2, forest: 5} gives exactly ["sol ring (x2)"]
C8_Witness ==
    /\ Reported
    /\ DOMAIN cardCounts = {sSolRing, <<"f", "o", "r", "e", "s", "t">>}
    /\ cardCounts[sSolRing] = 2
    /\ cardCounts[<<"f", "o", "r", "e", "s", "t">>] = 5
    /\ duplicates = << sSolRing \o <<" ", "(", "x", "2", ")">> >>

\* C9: the report carries a legality failure exactly when the commander's
\* legality is not "legal": the ban notice for "banned", a not-legal notice for
\* every other value.
C9_LegalityThreeOutcomes ==
    Reported =>
        /\ HasLine("banned_error") <=> (commander.legality = "banned")
        /\ HasLine("not_legal_error") <=> (commander.legality \notin {"banned", "legal"})

\* C10: the report carries the cannot-be-a-commander error exactly when neither
\* the type line contains "legendary" nor the oracle text contains "can be your
\* commander", both compared without regard to case.
C10_Eligibility ==
    Reported =>
        (HasLine("cannot_be_commander_error") <=>
            ~(\/ Contains(ToLower(commander.typeLine), sLegendary)
              \/ Contains(ToLower(commander.oracleText), sCanBeYourCommander)))

\* C10 witness: a commander that is not legendary is eligible by its oracle text
C10_Witness ==
    /\ Reported
    /\ ~Contains(ToLower(commander.typeLine), sLegendary)
    /\ Contains(ToLower(commander.oracleText), sCanBeYourCommander)
    /\ commander.oracleText # ToLower(commander.oracleText)
    /\ ~HasLine("cannot_be_commander_error")

----------------------------------------------------------------------------
(* Properties of the report *)

\* the lines of the deck-size section of the report
SizeLines ==
    SelectSeq(output, LAMBDA l : l.tag \in {"deck_size", "size_ok", "size_note", "size_error"})

\* the lines of a text decklist that are not blank
NonBlank(sh) == {i \in 1..Len(sh.elems) : TrimSpace(sh.elems[i].str) # <<>>}

\* C11: the deck-size section reports the number of entries, a line with a
\* quantity prefix counting once, and its verdict is the clean pass at exactly
\* 99 entries, the pass with a note at exactly 100, and the failure at every
\* other count.
C11_DeckSizeVerdict ==
    Reported =>
        LET n == Len(cardNames)
        IN /\ shape.kind = "text" => n = Cardinality(NonBlank(shape))
           /\ SizeLines =
                <<W("deck_size", <<>>, n),
                  W(IF n = 99 THEN "size_ok" ELSE IF n = 100 THEN "size_note" ELSE "size_error",
                    <<>>, 0)>>

\* a report on 99 lines "4 Forest": 99 cards, the clean pass
C11_Witness ==
    /\ Reported
    /\ shape.kind = "text"
    /\ Len(shape.elems) = 99
    /\ \A i \in 1..Len(shape.elems) : SubSeq(shape.elems[i].str, 1, 2) = <<"4", " ">>
    /\ SizeLines = <<W("deck_size", <<>>, 99), W("size_ok", <<>>, 0)>>

\* the number of lines of the returned text with one of these tags
VerdictCount(tags) == Len(SelectSeq(resultText, LAMBDA l : l.tag \in tags))

\* the lines that carry the verdict of each rule category
LegalityVerdicts == {"banned_error"}
EligibilityVerdicts == {"cannot_be_commander_error"}
SizeVerdicts == {"size_ok", "size_note", "size_error"}
SingletonVerdicts == {"no_duplicates", "found_duplicates"}

\* C12: every report carries exactly one verdict for each of commander
\* legality, commander eligibility, deck size and the singleton rule.
C12_OneVerdictPerCategory ==
    Reported =>
        /\ VerdictCount(LegalityVerdicts) = 1
        /\ VerdictCount(EligibilityVerdicts) = 1
        /\ VerdictCount(SizeVerdicts) = 1
        /\ VerdictCount(SingletonVerdicts) = 1

\* C14: a decklist that parses to no entry is an error: the resolver is never
\* called for it, no report is built, and the call returns an error.
C14_EmptyDecklistIsError ==
    (Parsed /\ cardNames = <<>>) =>
        /\ resolverCalls = 0
        /\ result # "text"
        /\ pc = "done" => result = "error"

\* the lines only a report carries
ReportTags ==
    {"title", "commander", "color_identity", "deck_size", "singleton_rule",
     "color_identity_note"}
    \cup LegalityVerdicts \cup EligibilityVerdicts \cup SizeVerdicts
    \cup SingletonVerdicts \cup {"dup"}

\* C15: when the resolver returns an error for the commander, the call returns
\* an error result that carries no line of a report: no deck-size verdict and
\* no singleton verdict.
C15_UnresolvedCommanderFails ==
    resolveErr # "" =>
        /\ pc = "done"
        /\ result = "error"
        /\ commander = NoCard
        /\ \A i \in 1..Len(resultText) : resultText[i].tag \notin ReportTags

\* the resolver did not find the commander of a decklist with entries
C15_Witness ==
    /\ pc = "done"
    /\ resolveErr = "not_found"
    /\ cardNames # <<>>
    /\ result = "error"

\* C16: a report is made with the commander alone resolved, it ends with the
\* one notice that color identity was not fully checked, and it has no line
\* that gives color identity a verdict.
C16_ColorIdentityNotice ==
    Reported =>
        /\ resolverCalls = 1
        /\ resultText[Len(resultText)] = W("color_identity_note", <<>>, 0)
        /\ VerdictCount({"color_identity_note"}) = 1
        /\ \A i \in 1..Len(resultText) : resultText[i].tag \in ReportTags

\* a report on a deck with entries and no duplicate, for a legal commander
C16_Witness ==
    /\ Reported
    /\ cardNames # <<>>
    /\ duplicates = <<>>
    /\ commander.legality = "legal"
    /\ VerdictCount({"color_identity_note"}) = 1

\* the place of a line in the fixed order of the categories, 0 for the lines
\* of no category
Rank(tag) ==
    IF tag \in LegalityVerdicts THEN 1
    ELSE IF tag \in EligibilityVerdicts THEN 2
    ELSE IF tag \in SizeVerdicts \cup {"deck_size"} THEN 3
    ELSE IF tag \in SingletonVerdicts \cup {"singleton_rule", "dup"} THEN 4
    ELSE 0

\* C17: in every report the verdicts come in the order legality, eligibility,
\* deck size, singleton rule.
C17_VerdictOrder ==
    Reported =>
        \A i, j \in 1..Len(resultText) :
            (i < j /\ Rank(resultText[i].tag) > 0 /\ Rank(resultText[j].tag) > 0)
                => Rank(resultText[i].tag) <= Rank(resultText[j].tag)

\* a report with a verdict of each of the four categories
C17_Witness ==
    /\ Reported
    /\ VerdictCount(LegalityVerdicts) = 1
    /\ VerdictCount(EligibilityVerdicts) = 1
    /\ VerdictCount(SizeVerdicts) = 1
    /\ VerdictCount({"found_duplicates"}) = 1

\* C18: the resolver is called once for the commander and never again: after
\* it returned an error the call is over with that error.
C18_ResolverCalledOnce ==
    /\ resolverCalls <= 1
    /\ (pc = "done" /\ hasCommander /\ hasDecklist) => resolverCalls = 1
    /\ resolveErr # "" => (pc = "done" /\ result = "error" /\ resolverCalls = 1)

\* the resolver failed in passing and the call is over
C18_Witness ==
    /\ pc = "done"
    /\ resolveErr = "transient"
    /\ resolverCalls = 1
    /\ result = "error"

----------------------------------------------------------------------------
(* Properties of two calls *)

\* call c returned a report
CallReported(c) == callState[c].pc = "done" /\ callState[c].result = "text"

\* C13: a second call with the decklist of the first, made after the first
\* is over and given the same card by the resolver, returns the same report,
\* the offending entries in the same order.
C13_SameReportTwice ==
    \A c \in Calls :
        LET d == Other(c)
        IN (/\ CallReported(c)
            /\ CallReported(d)
            /\ callState[d].after
            /\ callState[d].decklistStr = callState[c].decklistStr
            /\ callState[d].commander = callState[c].commander)
           => callState[d].resultText = callState[c].resultText

\* C20: when two calls overlap, each returns the report it returns when it
\* runs alone.
C20_SameAsAlone ==
    (\A c \in Calls : callState[c].pc = "done" /\ ~callState[c].after) =>
        \A c \in Calls : CallReported(c) => callState[c].resultText = callState[c].alone

----------------------------------------------------------------------------
(* The other functions of the server are modelled one call at a time, the   *)
(* validate_deck handler at rest.                                           *)

handler == <<single, concurrent>>

\* what a call of one function leaves alone
notPure == <<handler, logging, chat>>

\* no validate_deck request is being served
HandlerIdle ==
    /\ hasCommander = TRUE
    /\ hasDecklist = TRUE
    /\ shape = EmptyShape
    /\ Arrived
    /\ callState = IdleCalls
    /\ builders = IdleBuilders

----------------------------------------------------------------------------
(* edhrec.go: SanitizeCardName *)

LowerLetters ==
    {"a", "b", "c", "d", "e", "f", "g", "h", "i", "j", "k", "l", "m",
     "n", "o", "p", "q", "r", "s", "t", "u", "v", "w", "x", "y", "z"}

\* strings.ReplaceAll(s, old, new) for one-character old and new
ReplaceAllChar(s, old, new) == [i \in 1..Len(s) |-> IF s[i] = old THEN new ELSE s[i]]

\* the characters the class [^a-z0-9-] does not match
SlugChars == LowerLetters \cup Digits \cup {"-"}

\* regexp "[^a-z0-9-]+" replaced by "": every character outside the class goes
RemoveSpecial(s) == SelectSeq(s, LAMBDA c : c \in SlugChars)

\* regexp "-+" replaced by "-": of a run of hyphens the first one stays
CollapseHyphens(s) ==
    LET kept == {i \in 1..Len(s) : ~(s[i] = "-" /\ i > 1 /\ s[i - 1] = "-")}
        Nth(k) == CHOOSE i \in kept : Cardinality({j \in kept : j < i}) = k - 1
    IN [k \in 1..Cardinality(kept) |-> s[Nth(k)]]

\* strings.Trim(s, "-")
RECURSIVE TrimHyphens(_)
TrimHyphens(s) ==
    IF s # <<>> /\ Head(s) = "-" THEN TrimHyphens(Tail(s))
    ELSE IF s # <<>> /\ s[Len(s)] = "-" THEN TrimHyphens(SubSeq(s, 1, Len(s) - 1))
    ELSE s

\* SanitizeCardName that removes duplicate hyphens before the special characters
SanitizeCardName_CollapseFirst(name) ==
    TrimHyphens(RemoveSpecial(CollapseHyphens(ReplaceAllChar(ToLower(name), " ", "-"))))

SanitizeCardName(name) ==
    TrimHyphens(CollapseHyphens(RemoveSpecial(ReplaceAllChar(ToLower(name), " ", "-"))))

\* bound on the length of the card names tried
MaxNameLen == 5

\* characters of the card names tried
NameAlphabet == {"A", "b", "7", "-", " ", "'"}

sAtraxaPraetorsVoice ==
    <<"A", "t", "r", "a", "x", "a", ",", " ", "P", "r", "a", "e", "t", "o", "r", "s", "'",
      " ", "V", "o", "i", "c", "e">>

CardNameInputs == SeqsUpTo(NameAlphabet, MaxNameLen) \cup {sAtraxaPraetorsVoice}

InitSanitize ==
    /\ HandlerIdle
    /\ LoggerIdle
    /\ ChatIdle
    /\ at = "called"
    /\ arg \in CardNameInputs
    /\ ret = <<>>
    /\ again = <<>>

\* SanitizeCardName(arg) returns
CallSanitizeCardName ==
    /\ at = "called"
    /\ ret' = SanitizeCardName(arg)
    /\ at' = "returned"
    /\ UNCHANGED <<notPure, arg, again>>

\* SanitizeCardName is applied to what it returned
CallSanitizeCardNameAgain ==
    /\ at = "returned"
    /\ again' = SanitizeCardName(ret)
    /\ at' = "again"
    /\ UNCHANGED <<notPure, arg, ret>>

NextSanitize == CallSanitizeCardName \/ CallSanitizeCardNameAgain

SpecSanitize == InitSanitize /\ [][NextSanitize]_vars

\* the letters and digits of a string, in order
AlnumOf(s) == SelectSeq(s, LAMBDA c : c \in LowerLetters \cup Digits)

sAtraxaSlug ==
    <<"a", "t", "r", "a", "x", "a", "-", "p", "r", "a", "e", "t", "o", "r", "s", "-",
      "v", "o", "i", "c", "e">>

\* C21: what SanitizeCardName returns is made of a-z, 0-9 and '-' only, has no
\* two hyphens in a row and no hyphen at either end; it keeps the letters and
\* digits of the lower-cased name in order, a hyphen stands only where the
\* name had a space or a hyphen, "Atraxa, Praetors' Voice" gives
\* "atraxa-praetors-voice", and sanitizing the result again returns it as is.
C21_SanitizedShape ==
    /\ at \in {"returned", "again"} =>
          /\ \A i \in 1..Len(ret) : ret[i] \in SlugChars
          /\ \A i \in 1..(Len(ret) - 1) : ~(ret[i] = "-" /\ ret[i + 1] = "-")
          /\ ret # <<>> => (ret[1] # "-" /\ ret[Len(ret)] # "-")
          /\ AlnumOf(ret) = AlnumOf(ToLower(arg))
          /\ Len(SelectSeq(ret, LAMBDA c : c = "-"))
                <= Len(SelectSeq(arg, LAMBDA c : c \in {" ", "-"}))
          /\ arg = sAtraxaPraetorsVoice => ret = sAtraxaSlug
    /\ at = "again" => again = ret

\* a name with upper case, a space next to a removed character and a hyphen
C21_Witness ==
    /\ at = "again"
    /\ arg = <<"A", " ", "'", "-", "7">>
    /\ ret = <<"a", "-", "7">>
    /\ again = ret

----------------------------------------------------------------------------
(* moxfield.go: ExtractPublicIDFromURL *)

sDecks == <<"d", "e", "c", "k", "s">>

\* for i, part := range parts, from index i on: the first part equal to "decks"
\* that has a successor returns it, and url is returned when the loop ends
RECURSIVE ExtractFrom(_, _, _)
ExtractFrom(url, parts, i) ==
    IF i > Len(parts) THEN url
    ELSE IF parts[i] = sDecks /\ i + 1 <= Len(parts) THEN parts[i + 1]
    ELSE ExtractFrom(url, parts, i + 1)

\* the loop run from the last part to the first
RECURSIVE ExtractFromLast(_, _, _)
ExtractFromLast(url, parts, i) ==
    IF i < 1 THEN url
    ELSE IF parts[i] = sDecks /\ i + 1 <= Len(parts) THEN parts[i + 1]
    ELSE ExtractFromLast(url, parts, i - 1)

\* ExtractPublicIDFromURL that takes the last "decks" segment
ExtractPublicIDFromURL_LastDecks(url) ==
    LET parts == Split(url, "/") IN ExtractFromLast(url, parts, Len(parts))

ExtractPublicIDFromURL(url) == ExtractFrom(url, Split(url, "/"), 1)

\* bound on the number of segments of the URLs tried
MaxSegments == 4

\* segments of the URLs tried
Segments ==
    { sDecks, <<>>, <<"a", "b", "c", "1">>, <<"d", "e", "c", "k">>,
      <<"x", "?", "t", "=", "v">> }

sMoxfieldHost ==
    <<"h", "t", "t", "p", "s", ":", "/", "/", "w", "w", "w", ".", "m", "o", "x", "f", "i",
      "e", "l", "d", ".", "c", "o", "m">>

\* the URLs of the tests: the full URL, with a trailing slash, with a query
TestURLs ==
    { sMoxfieldHost \o <<"/">> \o sDecks \o <<"/", "a", "b", "c", "1">>,
      sMoxfieldHost \o <<"/">> \o sDecks \o <<"/", "a", "b", "c", "1", "/">>,
      sMoxfieldHost \o <<"/">> \o sDecks \o <<"/", "a", "b", "c", "1", "?", "t", "=", "v">> }

URLInputs == {Join(segs, <<"/">>) : segs \in SeqsUpTo(Segments, MaxSegments)} \cup TestURLs

InitExtract ==
    /\ HandlerIdle
    /\ LoggerIdle
    /\ ChatIdle
    /\ at = "called"
    /\ arg \in URLInputs
    /\ ret = <<>>
    /\ again = <<>>

\* ExtractPublicIDFromURL(arg) returns
CallExtractPublicIDFromURL ==
    /\ at = "called"
    /\ ret' = ExtractPublicIDFromURL(arg)
    /\ at' = "returned"
    /\ UNCHANGED <<notPure, arg, again>>

\* ExtractPublicIDFromURL is applied to what it returned
CallExtractPublicIDFromURLAgain ==
    /\ at = "returned"
    /\ again' = ExtractPublicIDFromURL(ret)
    /\ at' = "again"
    /\ UNCHANGED <<notPure, arg, ret>>

NextExtract == CallExtractPublicIDFromURL \/ CallExtractPublicIDFromURLAgain

SpecExtract == InitExtract /\ [][NextExtract]_vars

\* the places of the segments "decks" of a URL that have a successor
DecksPlaces(url) ==
    {i \in 1..(Len(Split(url, "/")) - 1) : Split(url, "/")[i] = sDecks}

\* C22: the result is the segment right after the first segment "decks", and
\* has no '/', when a segment "decks" has a successor; it is the input
\* otherwise; and the function returns its own result unchanged.
C22_SegmentAfterDecks ==
    /\ at \in {"returned", "again"} =>
          IF DecksPlaces(arg) # {}
          THEN LET first == CHOOSE i \in DecksPlaces(arg) : \A j \in DecksPlaces(arg) : i <= j
               IN /\ ret = Split(arg, "/")[first + 1]
                  /\ \A k \in 1..Len(ret) : ret[k] # "/"
          ELSE ret = arg
    /\ at = "again" => again = ret

\* a URL with two segments "decks", the first one followed by "decks"
C22_Witness ==
    /\ at = "again"
    /\ arg = sDecks \o <<"/">> \o sDecks \o <<"/", "a", "b", "c", "1">>
    /\ ret = sDecks
    /\ again = sDecks

----------------------------------------------------------------------------
(* moxfield.go, edhrec.go, http.go: the fetchers and HTTPGet *)

maxPageSize == 100
defaultPageSize == 20
StatusOK == 200

\* the five fetchers, by the function that does the work
Fetchers ==
    {"getMoxfieldDeckWithURL", "getUserDecksWithURL", "searchMoxfieldDecksWithURL",
     "getCommanderRecommendationsWithURL", "getCombosForColorsWithURL"}

\* params.PageSize as searchMoxfieldDecksWithURL puts it in the URL
SearchPageSize(pageSize) ==
    IF pageSize <= 0 \/ pageSize > maxPageSize THEN defaultPageSize ELSE pageSize

\* params.PageNumber as searchMoxfieldDecksWithURL puts it in the URL
SearchPageNumber(pageNumber) == IF pageNumber < 1 THEN 1 ELSE pageNumber

\* pageSize as getUserDecksWithURL puts it in the URL
UserDecksPageSize(pageSize) ==
    IF pageSize <= 0 \/ pageSize > maxPageSize THEN maxPageSize ELSE pageSize

\* the page parameters of the URL a function requests, 0 for a parameter the
\* URL does not have
Request(f, a) ==
    CASE f = "searchMoxfieldDecksWithURL" ->
            [pageSize |-> SearchPageSize(a.pageSize),
             pageNumber |-> SearchPageNumber(a.pageNumber)]
      [] f = "getUserDecksWithURL" ->
            [pageSize |-> UserDecksPageSize(a.pageSize), pageNumber |-> 0]
      [] OTHER -> [pageSize |-> 0, pageNumber |-> 0]

\* the status check that lets every status below 400 through
IsStatusError_ClientAndServerErrors(status) == status >= 400

\* resp.StatusCode != http.StatusOK
IsStatusError(status) == status # StatusOK

\* what client.Do and the decoder may do: the transport fails, or a response
\* with a status arrives whose body decodes or not
Outcomes ==
    {[kind |-> "transport_error", status |-> 0, bodyOk |-> FALSE]}
    \cup {[kind |-> "response", status |-> st, bodyOk |-> ok] :
            st \in {200, 201, 204, 304, 400, 404, 429, 500, 503}, ok \in BOOLEAN}

\* what a function returns on an outcome: HTTPGet returns client.Do's values,
\* a fetcher checks the status and decodes the body
Returned(f, o) ==
    IF o.kind # "response" THEN [result |-> "nil", err |-> "transport", status |-> 0]
    ELSE IF f = "HTTPGet" THEN [result |-> "response", err |-> "", status |-> o.status]
    ELSE IF IsStatusError(o.status) THEN [result |-> "nil", err |-> "status", status |-> o.status]
    ELSE IF ~o.bodyOk THEN [result |-> "nil", err |-> "decode", status |-> o.status]
    ELSE [result |-> "data", err |-> "", status |-> o.status]

\* page sizes and page numbers of the calls tried
PageSizes == {-10, -1, 0, 1, 20, 50, 99, 100, 101, 150}
PageNumbers == {-1, 0, 1, 2, 7}

FetchCalls ==
    {[fetcher |-> "searchMoxfieldDecksWithURL", pageSize |-> ps, pageNumber |-> pn] :
        ps \in PageSizes, pn \in PageNumbers}
    \cup {[fetcher |-> "getUserDecksWithURL", pageSize |-> ps, pageNumber |-> 0] :
        ps \in PageSizes}
    \cup {[fetcher |-> f, pageSize |-> 0, pageNumber |-> 0] :
        f \in {"getMoxfieldDeckWithURL", "getCommanderRecommendationsWithURL",
               "getCombosForColorsWithURL", "HTTPGet"}}

NoReturn == [result |-> "none", err |-> "", status |-> 0]

InitFetch ==
    /\ HandlerIdle
    /\ LoggerIdle
    /\ ChatIdle
    /\ at = "called"
    /\ arg \in FetchCalls
    /\ ret = <<>>
    /\ again = <<>>

\* the URL is built and the request is sent
SendRequest ==
    /\ at = "called"
    /\ ret' = [request |-> Request(arg.fetcher, arg), return |-> NoReturn]
    /\ at' = "sent"
    /\ UNCHANGED <<notPure, arg, again>>

\* client.Do returns and the function returns
ReceiveResponse ==
    /\ at = "sent"
    /\ \E o \in Outcomes : ret' = [ret EXCEPT !.return = Returned(arg.fetcher, o)]
    /\ at' = "returned"
    /\ UNCHANGED <<notPure, arg, again>>

NextFetch == SendRequest \/ ReceiveResponse

SpecFetch == InitFetch /\ [][NextFetch]_vars

\* C23: the search sends a page size above 100 as 100, a page size of zero or
\* less as 20 and a page size in 1..100 as it is, and a page number below 1
\* as 1.
C23_PageSizeClamped ==
    (at \in {"sent", "returned"} /\ arg.fetcher = "searchMoxfieldDecksWithURL") =>
        /\ ret.request.pageSize =
              (IF arg.pageSize > 100 THEN 100
               ELSE IF arg.pageSize <= 0 THEN 20
               ELSE arg.pageSize)
        /\ ret.request.pageNumber = (IF arg.pageNumber < 1 THEN 1 ELSE arg.pageNumber)

\* C25: a fetcher returns nil and an error on every response whose status is
\* not 200; HTTPGet returns the response and no error, whatever its status.
C25_NonOKIsError ==
    at = "returned" =>
        /\ (arg.fetcher \in Fetchers /\ ret.return.status \notin {0, 200}) =>
              (ret.return.result = "nil" /\ ret.return.err # "")
        /\ (arg.fetcher = "HTTPGet" /\ ret.return.err = "") =>
              ret.return.result = "response"
        /\ (arg.fetcher = "HTTPGet" /\ ret.return.status # 0) => ret.return.err = ""
        /\ ret.return.result = "nil" <=> ret.return.err # ""

\* a fetcher got a response with status 204 and returned nil and an error
C25_Witness ==
    /\ at = "returned"
    /\ arg.fetcher = "getCombosForColorsWithURL"
    /\ ret.return = [result |-> "nil", err |-> "status", status |-> 204]

----------------------------------------------------------------------------
(* handleSearchCards: the limit argument *)

defaultLimit == 10
maxLimit == 50

\* limit after the arguments were read: a float64 argument is converted and
\* capped from above only
ReadLimit(a) ==
    IF a.hasLimit THEN (IF a.limit > maxLimit THEN maxLimit ELSE a.limit)
    ELSE defaultLimit

\* result.Cards[:limit] when len(result.Cards) > limit: a negative limit is a
\* slice bound out of range, the handler panics
LimitResults(cards, limit) ==
    IF Len(cards) > limit
    THEN (IF limit < 0 THEN [panic |-> TRUE, cards |-> <<>>]
          ELSE [panic |-> FALSE, cards |-> SubSeq(cards, 1, limit)])
    ELSE [panic |-> FALSE, cards |-> cards]

\* the values of the limit argument tried, whole numbers as the float64 holds
\* them, and the numbers of cards the search returns
Limits == {-50, -1, 0, 1, 2, 9, 10, 11, 49, 50, 51, 175}
FoundCounts == {0, 1, 2, 10, 11, 50, 51, 60}

SearchCalls ==
    {[hasLimit |-> TRUE, limit |-> l] : l \in Limits} \cup {[hasLimit |-> FALSE, limit |-> 0]}

InitSearchCards ==
    /\ HandlerIdle
    /\ LoggerIdle
    /\ ChatIdle
    /\ at = "called"
    /\ arg \in SearchCalls
    /\ ret = <<>>
    /\ again = <<>>

\* the arguments are read
SearchReadsLimit ==
    /\ at = "called"
    /\ ret' = [limit |-> ReadLimit(arg), cards |-> <<>>, result |-> "none", shown |-> <<>>]
    /\ at' = "limited"
    /\ UNCHANGED <<notPure, arg, again>>

\* s.scryfallClient.SearchCards returns an error
SearchFails ==
    /\ at = "limited"
    /\ ret' = [ret EXCEPT !.result = "error"]
    /\ at' = "returned"
    /\ UNCHANGED <<notPure, arg, again>>

\* s.scryfallClient.SearchCards returns cards, numbered here from 1
SearchReturnsCards ==
    /\ at = "limited"
    /\ \E n \in FoundCounts : ret' = [ret EXCEPT !.cards = [i \in 1..n |-> i]]
    /\ at' = "searched"
    /\ UNCHANGED <<notPure, arg, again>>

\* no card: the text "No cards found"; else the results are limited and written
SearchFormats ==
    /\ at = "searched"
    /\ LET cut == LimitResults(ret.cards, ret.limit)
       IN IF Len(ret.cards) = 0
          THEN ret' = [ret EXCEPT !.result = "text"]
          ELSE ret' = [ret EXCEPT !.result = IF cut.panic THEN "panic" ELSE "text",
                                  !.shown = cut.cards]
    /\ at' = "returned"
    /\ UNCHANGED <<notPure, arg, again>>

NextSearchCards == SearchReadsLimit \/ SearchFails \/ SearchReturnsCards \/ SearchFormats

SpecSearchCards == InitSearchCards /\ [][NextSearchCards]_vars

\* the smaller of two numbers
Min(a, b) == IF a < b THEN a ELSE b

\* C24: whatever the number passed as limit, the handler returns a result (a
\* text, or the error of a failed search), and a text lists at least 0 and at
\* most min(limit, 50) cards, limit being 10 when the argument is absent.
C24_AtMostLimitCards ==
    at = "returned" =>
        /\ ret.result \in {"text", "error"}
        /\ ret.result = "text" =>
              \/ Len(ret.shown) = 0
              \/ Len(ret.shown) <= Min(IF arg.hasLimit THEN arg.limit ELSE 10, 50)

----------------------------------------------------------------------------
(* edhrec.go: FormatCommanderRecsForDisplay and FormatCombosForDisplay *)

\* one WriteString of a formatter: what it writes, the list it belongs to
\* (0 for none) and the number it carries
FL(tag, list, n) == [tag |-> tag, list |-> list, n |-> n]

\* count with a limit of zero taken as a limit
ShownCount_ZeroIsALimit(n, limit) == IF limit >= 0 /\ n > limit THEN limit ELSE n

\* count := len(...); if limit > 0 && count > limit { count = limit }
ShownCount(n, limit) == IF limit > 0 /\ n > limit THEN limit ELSE n

\* the items written for one list of n items, then the line "...and N more"
\* when n is above the shown count
ListLines(list, n, limit) ==
    LET count == ShownCount(n, limit)
    IN [i \in 1..count |-> FL("item", list, i)]
       \o (IF n > count THEN <<FL("more", list, n - count)>> ELSE <<>>)

\* the loop over data.CardLists from list k on: an empty list is skipped
RECURSIVE CardListLines(_, _, _)
CardListLines(lists, k, limit) ==
    IF k > Len(lists) THEN <<>>
    ELSE (IF lists[k] = 0 THEN <<>>
          ELSE <<FL("header", k, 0)>> \o ListLines(k, lists[k], limit))
         \o CardListLines(lists, k + 1, limit)

\* data.CardLists given by the number of card views of each list
FormatCommanderRecsForDisplay(lists, limit) ==
    <<FL("title", 0, 0), FL("total_decks", 0, 0)>> \o CardListLines(lists, 1, limit)

\* data.ComboCounts given by its length
FormatCombosForDisplay(combos, limit) ==
    <<FL("title", 0, 0), FL("total_combos", 0, combos)>> \o ListLines(1, combos, limit)

\* bounds on the data formatted
MaxItems == 3
MaxLists == 2

FormatLimits == (-1)..(MaxItems + 1)

FormatCalls ==
    {[fn |-> "FormatCommanderRecsForDisplay", data |-> ls, limit |-> l] :
        ls \in SeqsUpTo(0..MaxItems, MaxLists), l \in FormatLimits}
    \cup {[fn |-> "FormatCombosForDisplay", data |-> <<n>>, limit |-> l] :
        n \in 0..MaxItems, l \in FormatLimits}

InitFormat ==
    /\ HandlerIdle
    /\ LoggerIdle
    /\ ChatIdle
    /\ at = "called"
    /\ arg \in FormatCalls
    /\ ret = <<>>
    /\ again = <<>>

CallFormatCommanderRecsForDisplay ==
    /\ at = "called"
    /\ arg.fn = "FormatCommanderRecsForDisplay"
    /\ ret' = FormatCommanderRecsForDisplay(arg.data, arg.limit)
    /\ at' = "returned"
    /\ UNCHANGED <<notPure, arg, again>>

CallFormatCombosForDisplay ==
    /\ at = "called"
    /\ arg.fn = "FormatCombosForDisplay"
    /\ ret' = FormatCombosForDisplay(arg.data[1], arg.limit)
    /\ at' = "returned"
    /\ UNCHANGED <<notPure, arg, again>>

NextFormat == CallFormatCommanderRecsForDisplay \/ CallFormatCombosForDisplay

SpecFormat == InitFormat /\ [][NextFormat]_vars

\* the lines written for list k
LinesOf(k, tag) == SelectSeq(ret, LAMBDA l : l.list = k /\ l.tag = tag)

\* C26: of a list of n items the first min(limit, n) are shown when limit > 0
\* and the n - limit items left out, if any, are announced by one line
\* "...and N more" after them; when limit <= 0 all n items are shown and no
\* such line is written.
C26_AtMostLimitItems ==
    at = "returned" =>
        \A k \in 1..Len(arg.data) :
            LET n     == arg.data[k]
                shown == IF arg.limit > 0 /\ arg.limit < n THEN arg.limit ELSE n
            IN /\ LinesOf(k, "item") = [i \in 1..shown |-> FL("item", k, i)]
               /\ LinesOf(k, "more") =
                     (IF n - shown > 0 THEN <<FL("more", k, n - shown)>> ELSE <<>>)
               /\ arg.limit <= 0 => (shown = n /\ LinesOf(k, "more") = <<>>)
               /\ \A i, j \in 1..Len(ret) :
                     (ret[i].list = k /\ ret[i].tag = "more"
                      /\ ret[j].list = k /\ ret[j].tag = "item") => j < i

\* two lists of three recommendations with limit 2: one item left out of each
C26_Witness ==
    /\ at = "returned"
    /\ arg = [fn |-> "FormatCommanderRecsForDisplay", data |-> <<3, 3>>, limit |-> 2]
    /\ LinesOf(2, "item") = <<FL("item", 2, 1), FL("item", 2, 2)>>
    /\ LinesOf(2, "more") = <<FL("more", 2, 1)>>

\* ---------------------------------------------------------------------
\* logger: InitLogger and SetLogLevel
\* ---------------------------------------------------------------------

\* a path in a directory that does not exist
invalidPath == "/nonexistent/directory/that/does/not/exist/test.log"

LogFilePaths == {"mtg-commander-server.log", "test.log", invalidPath}

\* os.OpenFile with O_CREATE: a path in a missing directory is never opened,
\* any other path is opened or not as the file system decides
OpenFile(logFilePath) == IF logFilePath = invalidPath THEN {FALSE} ELSE BOOLEAN

\* the logger InitLogger builds: console and file, with caller
MultiLogger(logFilePath) == [writers |-> <<"stdout", logFilePath>>, caller |-> TRUE]

\* the arguments SetLogLevel is called with
LevelNames == {"debug", "info", "warn", "error", "", "invalid", "DEBUG"}

\* a level switch whose default is zerolog's zero level
LevelOf_DefaultDebug(level) ==
    CASE level = "info"  -> "InfoLevel"
      [] level = "warn"  -> "WarnLevel"
      [] level = "error" -> "ErrorLevel"
      [] OTHER           -> "DebugLevel"

\* the switch of SetLogLevel
LevelOf(level) ==
    CASE level = "debug" -> "DebugLevel"
      [] level = "info"  -> "InfoLevel"
      [] level = "warn"  -> "WarnLevel"
      [] level = "error" -> "ErrorLevel"
      [] OTHER           -> "InfoLevel"

\* what a call leaves behind for the properties: the call and the state it found
Called(op, a, failed) ==
    [op |-> op, arg |-> a, failed |-> failed,
     logger |-> loggerHolder, level |-> globalLevel]

\* an InitLogger that sets the level before it opens the file
InitLogger_LevelFirst ==
    \E logFilePath \in LogFilePaths : \E opened \in OpenFile(logFilePath) :
        /\ lastCall' = Called("InitLogger", logFilePath, ~opened)
        /\ globalLevel' = "InfoLevel"
        /\ loggerHolder' = IF opened THEN MultiLogger(logFilePath) ELSE loggerHolder
        /\ UNCHANGED <<handler, pure, chat>>

InitLogger ==
    \E logFilePath \in LogFilePaths : \E opened \in OpenFile(logFilePath) :
        /\ lastCall' = Called("InitLogger", logFilePath, ~opened)
        /\ IF ~opened
              THEN UNCHANGED <<loggerHolder, globalLevel>>
              ELSE /\ loggerHolder' = MultiLogger(logFilePath)
                   /\ globalLevel' = "InfoLevel"
        /\ UNCHANGED <<handler, pure, chat>>

SetLogLevel ==
    \E level \in LevelNames :
        /\ lastCall' = Called("SetLogLevel", level, FALSE)
        /\ globalLevel' = LevelOf(level)
        /\ UNCHANGED <<handler, pure, chat, loggerHolder>>

InitLogging ==
    /\ HandlerIdle
    /\ PureIdle
    /\ ChatIdle
    /\ LoggerIdle

NextLogger == InitLogger \/ SetLogLevel

SpecLogger == InitLogging /\ [][NextLogger]_vars

\* C27: after a call of SetLogLevel the global level is the one the call
\* named: "debug" sets debug, "info" info, "warn" warn, "error" error, and
\* every other string, the empty one included, sets info; whatever calls of
\* SetLogLevel and InitLogger came before.
C27_LastSetLogLevelWins ==
    lastCall.op = "SetLogLevel" =>
        /\ lastCall.arg = "debug" => globalLevel = "DebugLevel"
        /\ lastCall.arg = "info" => globalLevel = "InfoLevel"
        /\ lastCall.arg = "warn" => globalLevel = "WarnLevel"
        /\ lastCall.arg = "error" => globalLevel = "ErrorLevel"
        /\ lastCall.arg \notin {"debug", "info", "warn", "error"} =>
               globalLevel = "InfoLevel"

\* SetLogLevel("") called when the level was error: the level is info
C27_Witness ==
    /\ lastCall.op = "SetLogLevel"
    /\ lastCall.arg = ""
    /\ lastCall.level = "ErrorLevel"
    /\ globalLevel = "InfoLevel"

\* C28: an InitLogger whose file could not be opened returned an error and
\* left the logger and the global level as it found them; an InitLogger that
\* succeeded installed the logger for its path and set the global level to
\* info, whatever the level was before.
C28_InitLoggerAllOrNothing ==
    lastCall.op = "InitLogger" =>
        IF lastCall.failed
          THEN /\ loggerHolder = lastCall.logger
               /\ globalLevel = lastCall.level
          ELSE /\ loggerHolder = [writers |-> <<"stdout", lastCall.arg>>, caller |-> TRUE]
               /\ globalLevel = "InfoLevel"

\* InitLogger failed on the invalid path after a successful InitLogger and a
\* SetLogLevel("error"): the file logger and the error level are kept
C28_Witness ==
    /\ lastCall.op = "InitLogger"
    /\ lastCall.arg = invalidPath
    /\ lastCall.failed
    /\ lastCall.level = "ErrorLevel"
    /\ globalLevel = "ErrorLevel"
    /\ loggerHolder = MultiLogger("test.log")

\* ---------------------------------------------------------------------
\* chat: the model's Update and the commands sendToLLM returns
\* ---------------------------------------------------------------------

\* commands started in one behaviour
MaxCommands == 2

\* tool calls in one LLM response
MaxToolCalls == 2

\* what the user types
UserTexts == {"sol ring"}

\* LLMResponse.ToolCalls: the tool calls in the order the LLM listed them,
\* each named by its ToolCall.ID
ToolCallLists == {[k \in 1..n |-> k] : n \in 0..MaxToolCalls}

\* the results of MCPClient.CallTool: the output, an error of the client, or
\* a result flagged IsError
ToolOutcomes == {"ok", "failed", "IsError"}

\* the command sendToLLM(message) returns, before it runs
NewCommand(message) ==
    [message |-> message, pc |-> "GetTools", toolCalls |-> <<>>, ran |-> <<>>,
     requests |-> 0, delivered |-> <<>>]

\* what Update leaves behind for the properties: the message it handled and
\* the state it found
Handled(kind) ==
    [kind |-> kind, input |-> textarea, messages |-> messages, started |-> Len(cmds)]

\* Update, tea.KeyMsg with runes: textarea.Update inserts them
KeyRunes ==
    /\ ~quitting
    /\ textarea = ""
    /\ Len(cmds) < MaxCommands
    /\ \E runes \in UserTexts : textarea' = runes
    /\ lastUpdate' = Handled("KeyRunes")
    /\ UNCHANGED <<handler, pure, logging, messages, cmds, inbox, quitting>>

\* Update, tea.KeyCtrlC or tea.KeyEsc
KeyEsc ==
    /\ ~quitting
    /\ quitting' = TRUE
    /\ lastUpdate' = Handled("KeyEsc")
    /\ UNCHANGED <<handler, pure, logging, messages, textarea, cmds, inbox>>

\* Update, tea.KeyEnter
KeyEnter ==
    /\ ~quitting
    /\ lastUpdate' = Handled("KeyEnter")
    /\ IF textarea = ""
          THEN UNCHANGED <<messages, textarea, cmds>>
          ELSE /\ messages' = Append(messages,
                      [who |-> "You", text |-> textarea, cmd |-> Len(cmds) + 1])
               /\ textarea' = ""
               /\ cmds' = Append(cmds, NewCommand(textarea))
    /\ UNCHANGED <<handler, pure, logging, inbox, quitting>>

\* Update, responseMsg: the oldest message delivered and not yet handled
UpdateResponseMsg ==
    /\ ~quitting
    /\ inbox # <<>>
    /\ Head(inbox).kind = "responseMsg"
    /\ messages' = Append(messages,
           [who |-> "Assistant", text |-> Head(inbox).text, cmd |-> Head(inbox).cmd])
    /\ inbox' = Tail(inbox)
    /\ lastUpdate' = Handled("responseMsg")
    /\ UNCHANGED <<handler, pure, logging, textarea, cmds, quitting>>

\* Update, errMsg
UpdateErrMsg ==
    /\ ~quitting
    /\ inbox # <<>>
    /\ Head(inbox).kind = "errMsg"
    /\ messages' = Append(messages,
           [who |-> "Error", text |-> Head(inbox).text, cmd |-> Head(inbox).cmd])
    /\ inbox' = Tail(inbox)
    /\ lastUpdate' = Handled("errMsg")
    /\ UNCHANGED <<handler, pure, logging, textarea, cmds, quitting>>

\* command i returns the message: the runtime hands it to Update later
Return(i, c, kind, text) ==
    /\ cmds' = [cmds EXCEPT ![i] =
           [c EXCEPT !.pc = "done",
                     !.delivered = Append(@, [kind |-> kind, text |-> text])]]
    /\ inbox' = Append(inbox, [cmd |-> i, kind |-> kind, text |-> text])

\* the state a step of a command leaves alone
NotCommands == <<handler, pure, logging, messages, textarea, quitting, lastUpdate>>

\* sendToLLM: MCPClient.GetTools, which returns no error
GetTools(i) ==
    /\ ~quitting
    /\ cmds[i].pc = "GetTools"
    /\ cmds' = [cmds EXCEPT ![i].pc = "SendMessage"]
    /\ UNCHANGED <<NotCommands, inbox>>

\* sendToLLM: the request with the user's message and the tools
SendMessage(i) ==
    /\ ~quitting
    /\ cmds[i].pc = "SendMessage"
    /\ LET c == [cmds[i] EXCEPT !.requests = @ + 1]
       IN \/ Return(i, c, "errMsg", "LLM error")
          \/ \E toolCalls \in ToolCallLists :
                IF Len(toolCalls) > 0
                  THEN /\ cmds' = [cmds EXCEPT ![i] =
                              [c EXCEPT !.pc = "CallTool", !.toolCalls = toolCalls]]
                       /\ UNCHANGED inbox
                  ELSE Return(i, c, "responseMsg", "response")
    /\ UNCHANGED NotCommands

\* a loop that goes on to the next tool call after a failed one
CallTool_ContinueAfterFailure(i) ==
    /\ ~quitting
    /\ cmds[i].pc = "CallTool"
    /\ \E outcome \in ToolOutcomes :
          LET k == Len(cmds[i].ran) + 1
              c == [cmds[i] EXCEPT
                      !.ran = Append(@, [tool |-> cmds[i].toolCalls[k], outcome |-> outcome]),
                      !.pc = IF k = Len(cmds[i].toolCalls) THEN "SendToolResults" ELSE "CallTool"]
          IN /\ cmds' = [cmds EXCEPT ![i] = c]
             /\ UNCHANGED inbox
    /\ UNCHANGED NotCommands

\* sendToLLM: one round of the loop over response.ToolCalls
CallTool(i) ==
    /\ ~quitting
    /\ cmds[i].pc = "CallTool"
    /\ \E outcome \in ToolOutcomes :
          LET k == Len(cmds[i].ran) + 1
              c == [cmds[i] EXCEPT
                      !.ran = Append(@, [tool |-> cmds[i].toolCalls[k], outcome |-> outcome])]
          IN IF outcome # "ok"
               THEN Return(i, c, "errMsg", "tool call error")
               ELSE /\ cmds' = [cmds EXCEPT ![i] =
                           [c EXCEPT !.pc = IF k = Len(c.toolCalls)
                                              THEN "SendToolResults" ELSE "CallTool"]]
                    /\ UNCHANGED inbox
    /\ UNCHANGED NotCommands

\* sendToLLM: the request with the tool results
SendToolResults(i) ==
    /\ ~quitting
    /\ cmds[i].pc = "SendToolResults"
    /\ LET c == [cmds[i] EXCEPT !.requests = @ + 1]
       IN \/ Return(i, c, "errMsg", "LLM error after tool calls")
          \/ Return(i, c, "responseMsg", "final response")
    /\ UNCHANGED NotCommands

InitChat ==
    /\ HandlerIdle
    /\ PureIdle
    /\ LoggerIdle
    /\ ChatIdle

NextChat ==
    \/ KeyRunes
    \/ KeyEnter
    \/ KeyEsc
    \/ UpdateResponseMsg
    \/ UpdateErrMsg
    \/ \E i \in 1..Len(cmds) : GetTools(i)
    \/ \E i \in 1..Len(cmds) : SendMessage(i)
    \/ \E i \in 1..Len(cmds) : CallTool(i)
    \/ \E i \in 1..Len(cmds) : SendToolResults(i)

SpecChat == InitChat /\ [][NextChat]_vars

\* the tool calls command c ran that did not return an output
FailedRuns(c) == {k \in 1..Len(c.ran) : c.ran[k].outcome # "ok"}

\* C29: a command of sendToLLM returns once, so it delivers one message when
\* it is done and none before; the tool calls it ran are the first ones of the
\* LLM's list, in the list's order; a tool call that failed or whose result
\* was flagged as error is the last one it ran, the command is done with the
\* error "tool call error" and it sent the first LLM request only; a second,
\* follow-up request was sent only after every listed tool call returned its
\* output, and a command that delivered a response after tool calls sent
\* exactly two requests.
C29_OneMessagePerCommand ==
    \A i \in 1..Len(cmds) :
        LET c == cmds[i]
        IN /\ Len(c.delivered) = (IF c.pc = "done" THEN 1 ELSE 0)
           /\ \A m \in 1..Len(c.delivered) :
                 c.delivered[m].kind \in {"responseMsg", "errMsg"}
           /\ Len(c.ran) <= Len(c.toolCalls)
           /\ \A k \in 1..Len(c.ran) : c.ran[k].tool = c.toolCalls[k]
           /\ FailedRuns(c) \subseteq {Len(c.ran)}
           /\ FailedRuns(c) # {} =>
                 /\ c.pc = "done"
                 /\ c.delivered = <<[kind |-> "errMsg", text |-> "tool call error"]>>
                 /\ c.requests = 1
           /\ c.requests <= 2
           /\ c.requests = 2 =>
                 /\ Len(c.toolCalls) > 0
                 /\ Len(c.ran) = Len(c.toolCalls)
                 /\ FailedRuns(c) = {}
           /\ (c.pc = "done" /\ Len(c.toolCalls) > 0 /\ FailedRuns(c) = {}) =>
                 c.requests = 2
           /\ (c.pc = "done" /\ Len(c.toolCalls) = 0) => c.requests = 1

\* the LLM listed two tool calls and the result of the second was flagged as
\* error: the command delivered the error and sent no follow-up request
C29_Witness ==
    \E i \in 1..Len(cmds) :
        /\ cmds[i].toolCalls = <<1, 2>>
        /\ cmds[i].ran = <<[tool |-> 1, outcome |-> "ok"], [tool |-> 2, outcome |-> "IsError"]>>
        /\ cmds[i].pc = "done"
        /\ cmds[i].requests = 1
        /\ cmds[i].delivered = <<[kind |-> "errMsg", text |-> "tool call error"]>>

\* list a starts list b
IsPrefix(a, b) == Len(a) <= Len(b) /\ \A k \in 1..Len(a) : a[k] = b[k]

\* C30: the message list only grows, Enter on an empty input changed nothing
\* and started no command, and the lines alternate: every odd line is a user
\* line and every even line is the reply or the error of the command the
\* line before it started, also when Enter is pressed again before the
\* reply to the previous line has arrived.
C30_LinesAlternate ==
    /\ IsPrefix(lastUpdate.messages, messages)
    /\ (lastUpdate.kind = "KeyEnter" /\ lastUpdate.input = "") =>
          (messages = lastUpdate.messages /\ Len(cmds) = lastUpdate.started)
    /\ \A k \in 1..Len(messages) :
          IF k % 2 = 1
            THEN messages[k].who = "You"
            ELSE /\ messages[k].who \in {"Assistant", "Error"}
                 /\ messages[k].cmd = messages[k - 1].cmd

====
